---- MODULE Spec2Model ----
(***************************************************************************)
(* spipy: the SPI object of spi.c (Python binding for Linux spidev).       *)
(* One SPI instance, the OS descriptor table it opens descriptors in, and  *)
(* the methods SPI_new / SPI_init / SPI_open / SPI_close / SPI_transfer.   *)
(***************************************************************************)
EXTENDS Integers, Sequences, FiniteSets, TLC

VARIABLES
    phase,      \* "new" | "ready" | "returned" | "init_failed" | "dropped" | "crashed"
    refcnt,     \* ob_refcnt of the instance
    fd,         \* self->fd
    mode,       \* self->mode
    bpw,        \* self->bpw
    msh,        \* self->msh
    openFds,    \* descriptors of the process that open() returned and close() has not released
    call        \* what the most recent call did (inputs, outcome, OS calls it made)

vars == <<phase, refcnt, fd, mode, bpw, msh, openFds, call>>

(***************************************************************************)
(* Program constants                                                       *)
(***************************************************************************)
MAXPATH == 16
MAX_TRANSFER_LENGTH == 256
PathPrefixLen == 11            \* strlen("/dev/spidev")
TransferBits == 8
TransferDelay == 5
TransferSpeed == 1000000

(***************************************************************************)
(* Bounds of the model                                                     *)
(***************************************************************************)
NumFds == 2                    \* descriptors the process may hold: 3 .. 2+NumFds
SmallLen == 2                  \* short transmit lengths: 0 .. SmallLen
Over == 2                      \* lengths up to MAX_TRANSFER_LENGTH + Over

Fds == 3..(2 + NumFds)
Nodes == {<<0, 0>>}            \* the spidev nodes that exist: /dev/spidev0.0
Modes == {0, 3}                \* what SPI_IOC_RD_MODE may report
BitsPerWord == {8}             \* what SPI_IOC_RD_BITS_PER_WORD may report
Speeds == {500000}             \* what SPI_IOC_RD_MAX_SPEED_HZ may report
Garbage == {0, 170}            \* contents an uninitialised stack buffer may hold
Responses == {"fail", "echo", "invert"}      \* what the device does with a message
UBOutcomes == {"crash_early", "crash_late", "continue"}   \* after an out-of-bounds access

NoCall ==
    [op |-> "none", args |-> <<>>, rxlen |-> 0, exc |-> "none", msg |-> "",
     result |-> <<>>, pre |-> [fd |-> -1, mode |-> 0, bpw |-> 0, msh |-> 0, openFds |-> {}],
     nOpen |-> 0, nClose |-> 0, nQuery |-> 0, osret |-> 0, msgs |-> <<>>, oob |-> FALSE,
     errPrinted |-> FALSE]

Self == [fd |-> fd, mode |-> mode, bpw |-> bpw, msh |-> msh, openFds |-> openFds]

(***************************************************************************)
(* SPI_new: tp_alloc leaves one reference, Py_INCREF adds a second.        *)
(***************************************************************************)
Init ==
    /\ phase = "new"
    /\ refcnt = 2
    /\ fd = -1
    /\ mode = 0
    /\ bpw = 0
    /\ msh = 0
    /\ openFds = {}
    /\ call = NoCall

(***************************************************************************)
(* The OS: open(2) returns the lowest free descriptor; close(2) of a       *)
(* descriptor that is not open fails (EBADF).                              *)
(***************************************************************************)
LowestFree(open) == CHOOSE f \in Fds \ open : \A g \in Fds \ open : f <= g

\* close(self->fd): env.closeOk is whether the kernel reports success, env.released
\* whether a failing close has released the descriptor all the same.
OsClose(d, open, env) ==
    IF d \notin open THEN [ret |-> -1, openFds |-> open]
    ELSE IF env.closeOk THEN [ret |-> 0, openFds |-> open \ {d}]
    ELSE [ret |-> -1, openFds |-> IF env.released THEN open \ {d} ELSE open]

(***************************************************************************)
(* SPI_close                                                               *)
(***************************************************************************)
\* a variant that leaves the cached settings in place
CloseBodyKeepsSettings(self, env) ==
    LET c == OsClose(self.fd, self.openFds, env) IN
    IF self.fd # -1 /\ c.ret = -1
    THEN [fd |-> self.fd, mode |-> self.mode, bpw |-> self.bpw, msh |-> self.msh,
          openFds |-> c.openFds, exc |-> "IOError", nClose |-> 1, osret |-> c.ret]
    ELSE [fd |-> -1, mode |-> self.mode, bpw |-> self.bpw, msh |-> self.msh,
          openFds |-> IF self.fd # -1 THEN c.openFds ELSE self.openFds,
          exc |-> "none", nClose |-> IF self.fd # -1 THEN 1 ELSE 0,
          osret |-> IF self.fd # -1 THEN c.ret ELSE 0]

CloseBody(self, env) ==
    LET c == OsClose(self.fd, self.openFds, env) IN
    IF self.fd # -1 /\ c.ret = -1
    THEN [fd |-> self.fd, mode |-> self.mode, bpw |-> self.bpw, msh |-> self.msh,
          openFds |-> c.openFds, exc |-> "IOError", nClose |-> 1, osret |-> c.ret]
    ELSE [fd |-> -1, mode |-> 0, bpw |-> 0, msh |-> 0,
          openFds |-> IF self.fd # -1 THEN c.openFds ELSE self.openFds,
          exc |-> "none", nClose |-> IF self.fd # -1 THEN 1 ELSE 0,
          osret |-> IF self.fd # -1 THEN c.ret ELSE 0]

SPI_close ==
    /\ phase = "ready"
    /\ \E closeOk \in BOOLEAN, released \in BOOLEAN :
         LET r == CloseBody(Self, [closeOk |-> closeOk, released |-> released]) IN
         /\ fd' = r.fd
         /\ mode' = r.mode
         /\ bpw' = r.bpw
         /\ msh' = r.msh
         /\ openFds' = r.openFds
         /\ call' = [NoCall EXCEPT !.op = "close", !.exc = r.exc, !.pre = Self,
                                   !.nClose = r.nClose, !.osret = r.osret]
    /\ phase' = "returned"
    /\ UNCHANGED refcnt

(***************************************************************************)
(* SPI_open                                                                *)
(***************************************************************************)
RECURSIVE Digits(_)
Digits(n) == IF n < 10 THEN 1 ELSE 1 + Digits(n \div 10)

\* characters "%d" prints
DecLen(n) == IF n < 0 THEN 1 + Digits(-n) ELSE Digits(n)

\* what snprintf(path, MAXPATH, "/dev/spidev%d.%d", bus, device) returns
PathLen(bus, device) == PathPrefixLen + DecLen(bus) + 1 + DecLen(device)

\* open(path, O_RDWR, 0): the node must exist, the process must be allowed to open
\* it (env.openOk) and a descriptor must be free.
OsOpen(bus, device, open, env) ==
    IF <<bus, device>> \in Nodes /\ env.openOk /\ Fds \ open # {}
    THEN LowestFree(open)
    ELSE -1

\* a variant that takes only 0 for a failure
OpenFailedOnZero(d) == d = 0

\* the test made of what open(2) returned
OpenFailed(d) == d < 0

\* env.queries: how many of the three read-back ioctls succeed (3: all of them)
OpenBody(self, args, env) ==
    LET same(exc, msg) ==
            [fd |-> self.fd, mode |-> self.mode, bpw |-> self.bpw, msh |-> self.msh,
             openFds |-> self.openFds, exc |-> exc, msg |-> msg, nOpen |-> 0, nQuery |-> 0,
             osret |-> 0]
    IN
    IF Len(args) # 2 THEN same("TypeError", "")
    ELSE IF PathLen(args[1], args[2]) >= MAXPATH
    THEN same("OverflowError", "Bus and/or device number is invalid.")
    ELSE
      LET d == OsOpen(args[1], args[2], self.openFds, env)
          opened == [same("none", "") EXCEPT !.fd = d, !.nOpen = 1, !.osret = d,
                                             !.openFds = self.openFds \cup {d}]
      IN
      IF OpenFailed(d)
      THEN [same("SpiError", "can't open device") EXCEPT !.fd = d, !.nOpen = 1, !.osret = d]
      ELSE IF env.queries = 0
      THEN [opened EXCEPT !.exc = "SpiError", !.msg = "can't get spi mode", !.nQuery = 1]
      ELSE IF env.queries = 1
      THEN [opened EXCEPT !.mode = env.mode,
                          !.exc = "SpiError", !.msg = "can't get bits per word", !.nQuery = 2]
      ELSE IF env.queries = 2
      THEN [opened EXCEPT !.mode = env.mode, !.bpw = env.bpw,
                          !.exc = "SpiError", !.msg = "can't get max speed hz", !.nQuery = 3]
      ELSE [opened EXCEPT !.mode = env.mode, !.bpw = env.bpw, !.msh = env.msh, !.nQuery = 3]

OpenEnvs ==
    [openOk : BOOLEAN, queries : 0..3, mode : Modes, bpw : BitsPerWord, msh : Speeds]

Buses == {-1, 0, 100}
Devices == {0, 10}
OpenArgs == {<<b, d>> : b \in Buses, d \in Devices} \cup {<<0>>}

Opened(op, args, r) ==
    /\ fd' = r.fd
    /\ mode' = r.mode
    /\ bpw' = r.bpw
    /\ msh' = r.msh
    /\ openFds' = r.openFds
    /\ call' = [NoCall EXCEPT !.op = op, !.args = args, !.exc = r.exc, !.msg = r.msg,
                              !.pre = Self, !.nOpen = r.nOpen, !.nQuery = r.nQuery,
                              !.osret = r.osret]

SPI_open ==
    /\ phase = "ready"
    /\ \E args \in OpenArgs, env \in OpenEnvs : Opened("open", args, OpenBody(Self, args, env))
    /\ phase' = "returned"
    /\ UNCHANGED refcnt

(***************************************************************************)
(* SPI_init: SPI([bus],[client]).  A failed construction drops the         *)
(* reference the caller would have received.                               *)
(***************************************************************************)
InitArgs == OpenArgs \cup {<<>>, <<-1>>}

SPI_init ==
    /\ phase = "new"
    /\ \E args \in InitArgs, env \in OpenEnvs :
         IF Len(args) >= 1 /\ args[1] >= 0
         THEN LET r == OpenBody(Self, args, env) IN
              /\ Opened("init", args, r)
              /\ phase' = IF r.exc # "none" THEN "init_failed" ELSE "returned"
              /\ refcnt' = IF r.exc # "none" THEN refcnt - 1 ELSE refcnt
         ELSE /\ call' = [NoCall EXCEPT !.op = "init", !.args = args, !.pre = Self]
              /\ phase' = "returned"
              /\ UNCHANGED <<refcnt, fd, mode, bpw, msh, openFds>>

(***************************************************************************)
(* SPI_transfer                                                            *)
(***************************************************************************)
\* the positions (from 1) of the elements the copy loop rejects
BadAt(seq) == {i \in 1..Len(seq) : seq[i] > 255 \/ seq[i] < 0}

\* how many elements the copy loop stores in tx_buf before it ends
Copied(seq) ==
    IF BadAt(seq) = {} THEN Len(seq)
    ELSE (CHOOSE i \in BadAt(seq) : \A j \in BadAt(seq) : i <= j) - 1

\* a variant that ignores the requested response length
TransferLengthOfTxOnly(tx_length, rx_length) == tx_length

TransferLength(tx_length, rx_length) ==
    IF tx_length > rx_length THEN tx_length ELSE rx_length

\* the value padded into tx_buf[tx_length .. transfer_length-1]
PadByte == 0

\* tx_buf[0 .. MAX_TRANSFER_LENGTH-1] when the ioctl is issued: the copied
\* elements, then the padding, then whatever the stack held (g)
TxBuf(seq, transfer_length, g) ==
    [i \in 0..(MAX_TRANSFER_LENGTH - 1) |->
        IF i < Len(seq) THEN seq[i + 1]
        ELSE IF i < transfer_length THEN PadByte
        ELSE g]

\* the len bytes the kernel reads at buf; past the array it reads what lies there
BytesAt(buf, len, g) ==
    [i \in 1..len |-> IF i - 1 < MAX_TRANSFER_LENGTH THEN buf[i - 1] ELSE g]

\* what the device shifts back while it is sent tx
Response(tx, resp) ==
    [i \in 1..Len(tx) |-> IF resp = "echo" THEN tx[i] ELSE 255 - tx[i]]

\* ioctl(self->fd, SPI_IOC_MESSAGE(1), &transfer): rx is written only on success
Ioctl(d, open, tx, resp) ==
    IF d \notin open \/ resp = "fail"
    THEN [fd |-> d, len |-> Len(tx), tx |-> tx, ret |-> -1, rx |-> <<>>,
          bits |-> TransferBits, delay |-> TransferDelay, speed |-> TransferSpeed]
    ELSE [fd |-> d, len |-> Len(tx), tx |-> tx, ret |-> Len(tx), rx |-> Response(tx, resp),
          bits |-> TransferBits, delay |-> TransferDelay, speed |-> TransferSpeed]

\* rx_buf[0 .. MAX_TRANSFER_LENGTH-1] after the ioctl
RxBuf(io, g) ==
    [i \in 0..(MAX_TRANSFER_LENGTH - 1) |-> IF i < Len(io.rx) THEN io.rx[i + 1] ELSE g]

\* the tuple built from rx_buf[0 .. transfer_length-1]
RxTuple(rx_buf, transfer_length, g) ==
    [i \in 1..transfer_length |->
        IF i - 1 < MAX_TRANSFER_LENGTH THEN rx_buf[i - 1] ELSE g]

TransferBody(self, seq, rx_length, env) ==
    LET tx_length == Len(seq)
        copied == Copied(seq)
        transfer_length == TransferLength(tx_length, rx_length)
        none == [exc |-> "none", msg |-> "", result |-> <<>>, msgs |-> <<>>,
                 oob |-> FALSE, errPrinted |-> FALSE]
        io == Ioctl(self.fd, self.openFds,
                    BytesAt(TxBuf(seq, transfer_length, env.garbage), transfer_length,
                            env.garbage),
                    env.resp)
        done == [none EXCEPT !.result = RxTuple(RxBuf(io, env.garbage), transfer_length,
                                                env.garbage),
                             !.msgs = <<io>>, !.errPrinted = (io.ret < 1)]
    IN
    IF copied < tx_length
    THEN \* an element is rejected, after tx_buf[0 .. copied-1] were written
         IF copied > MAX_TRANSFER_LENGTH /\ env.ub # "continue"
         THEN [none EXCEPT !.exc = "crash", !.oob = TRUE]
         ELSE [none EXCEPT !.exc = "AttributeError",
                           !.msg = "Transmit data should be valid 8-bit data",
                           !.oob = (copied > MAX_TRANSFER_LENGTH)]
    ELSE IF transfer_length > MAX_TRANSFER_LENGTH
    THEN \* tx_buf and rx_buf are accessed past their end
         IF env.ub = "crash_early" THEN [none EXCEPT !.exc = "crash", !.oob = TRUE]
         ELSE IF env.ub = "crash_late"
         THEN [none EXCEPT !.exc = "crash", !.oob = TRUE, !.msgs = <<io>>,
                           !.errPrinted = (io.ret < 1)]
         ELSE [done EXCEPT !.oob = TRUE]
    ELSE done

\* transmit data: a ramp of n bytes, with one element replaced by v when p is in 1..n
Ramp(n, p, v) == [i \in 1..n |-> IF i = p THEN v ELSE (i * 85) % 256]

Lengths == (0..SmallLen) \cup (MAX_TRANSFER_LENGTH..(MAX_TRANSFER_LENGTH + Over))
TxData ==
    {Ramp(n, 0, 0) : n \in Lengths}
      \cup {Ramp(n, 1, -1) : n \in Lengths \ {0}}
      \cup {Ramp(n, n, 256) : n \in Lengths \ {0}}
\* the "i" argument: any int; 0 when omitted
RxLengths == {-1, 0, SmallLen + 1, MAX_TRANSFER_LENGTH, MAX_TRANSFER_LENGTH + Over}
\* does the call access tx_buf or rx_buf at an index >= MAX_TRANSFER_LENGTH
Overruns(seq, rx_length) ==
    \/ Copied(seq) > MAX_TRANSFER_LENGTH
    \/ Copied(seq) = Len(seq) /\ TransferLength(Len(seq), rx_length) > MAX_TRANSFER_LENGTH

\* what the call leaves to its environment: the stack contents, the device's
\* answer when the descriptor is open, the outcome of an overrun when there is one
TransferEnvs(self, seq, rx_length) ==
    [garbage : Garbage,
     resp : IF self.fd \in self.openFds THEN Responses ELSE {"fail"},
     ub : IF Overruns(seq, rx_length) THEN UBOutcomes ELSE {"continue"}]

SPI_transfer ==
    /\ phase = "ready"
    /\ \E seq \in TxData, rx_length \in RxLengths :
       \E env \in TransferEnvs(Self, seq, rx_length) :
         LET r == TransferBody(Self, seq, rx_length, env) IN
         /\ call' = [NoCall EXCEPT !.op = "transfer", !.args = seq, !.rxlen = rx_length,
                                   !.exc = r.exc, !.msg = r.msg, !.result = r.result,
                                   !.pre = Self, !.msgs = r.msgs, !.oob = r.oob,
                                   !.errPrinted = r.errPrinted]
         /\ phase' = IF r.exc = "crash" THEN "crashed" ELSE "returned"
    /\ UNCHANGED <<refcnt, fd, mode, bpw, msh, openFds>>

(***************************************************************************)
(* The host drops its reference.  SPI_type has no tp_dealloc, so nothing   *)
(* closes self->fd when (if) the count reaches zero.                       *)
(***************************************************************************)
Drop ==
    /\ phase = "ready"
    /\ refcnt' = refcnt - 1
    /\ phase' = "dropped"
    /\ call' = [NoCall EXCEPT !.op = "drop", !.pre = Self]
    /\ UNCHANGED <<fd, mode, bpw, msh, openFds>>

(***************************************************************************)
(* The method table hands the result (or the exception) of a call back to  *)
(* the interpreter; the instance can then be called again.  The instance's *)
(* fields are untouched: every method above is one atomic step.            *)
(***************************************************************************)
Return ==
    /\ phase = "returned"
    /\ phase' = "ready"
    /\ call' = NoCall
    /\ UNCHANGED <<refcnt, fd, mode, bpw, msh, openFds>>

Next ==
    \/ SPI_init
    \/ SPI_open
    \/ SPI_close
    \/ SPI_transfer
    \/ Drop
    \/ Return

Spec == Init /\ [][Next]_vars

\* A host that has a step to take takes it.
FairSpec == Spec /\ WF_vars(Next)

(***************************************************************************)
(* Properties                                                              *)
(***************************************************************************)
Unopened == fd = -1
SettingsZero == mode = 0 /\ bpw = 0 /\ msh = 0
SettingsUnchanged == mode = call.pre.mode /\ bpw = call.pre.bpw /\ msh = call.pre.msh
InstanceUnchanged == fd = call.pre.fd /\ SettingsUnchanged
RequestedLength == IF Len(call.args) > call.rxlen THEN Len(call.args) ELSE call.rxlen
ValidTransferInput ==
    /\ call.op = "transfer"
    /\ BadAt(call.args) = {}
    /\ Len(call.args) <= MAX_TRANSFER_LENGTH
    /\ call.rxlen <= MAX_TRANSFER_LENGTH

\* C1: a transfer of valid bytes on an opened instance, both lengths within the
\* maximum, issues exactly one message of length max(len(txData),
\* minimumResponseLength) whose transmit buffer is txData followed by zero bytes,
\* and returns the receive buffer of that length: the bytes the device delivered,
\* in order, when the message succeeded (the buffer as the stack left it when the
\* message failed).
C1_TransferPadsAndReturnsReceived ==
    (ValidTransferInput /\ call.pre.fd # -1) =>
        /\ call.exc = "none"
        /\ Len(call.msgs) = 1
        /\ call.msgs[1].fd = call.pre.fd
        /\ call.msgs[1].len = RequestedLength
        /\ Len(call.msgs[1].tx) = RequestedLength
        /\ \A i \in 1..RequestedLength :
              call.msgs[1].tx[i] = IF i <= Len(call.args) THEN call.args[i] ELSE 0
        /\ Len(call.result) = RequestedLength
        /\ (call.rxlen = 0 => Len(call.result) = Len(call.args))
        /\ (call.msgs[1].ret >= 1 => call.result = call.msgs[1].rx)
        /\ (call.msgs[1].ret < 1 => \A i \in 1..RequestedLength : call.result[i] \in Garbage)
        /\ InstanceUnchanged

\* a transfer that pads: fewer transmit bytes than the response asked for, answered
C1_Witness ==
    /\ ValidTransferInput
    /\ call.pre.fd \in call.pre.openFds
    /\ Len(call.args) >= 1
    /\ Len(call.args) < call.rxlen
    /\ call.exc = "none"
    /\ Len(call.msgs) = 1
    /\ call.msgs[1].ret = call.rxlen

\* C2: whenever close() succeeds the instance is unopened with mode, bpw and msh
\* zero; a close of an unopened instance (as after a successful close) succeeds
\* without calling close(2).
C2_CloseLeavesUnopenedZeroed ==
    /\ (call.op = "close" /\ call.exc = "none") => (Unopened /\ SettingsZero)
    /\ (call.op = "close" /\ call.pre.fd = -1) =>
          (call.exc = "none" /\ call.nClose = 0 /\ openFds = call.pre.openFds)

\* a successful close of an instance that was open with non-zero settings
C2_Witness ==
    /\ call.op = "close"
    /\ call.exc = "none"
    /\ call.pre.fd \in call.pre.openFds
    /\ call.pre.mode # 0 /\ call.pre.bpw # 0 /\ call.pre.msh # 0
    /\ call.nClose = 1

\* C3 (as claimed): transfer on an unopened instance (taken with valid bytes and
\* lengths within the maximum, so that no other failure competes) fails with
\* NotOpenError and issues no ioctl.
C3_TransferUnopenedFails ==
    (call.op = "transfer" /\ call.pre.fd = -1 /\ ValidTransferInput) =>
        (call.exc = "NotOpenError" /\ call.msgs = <<>>)

\* C4 (as claimed): a transfer (of valid bytes) whose transmit length or requested
\* length exceeds MAX_TRANSFER_LENGTH fails with BufferTooLarge: no buffer index
\* >= the maximum is accessed, no message is issued, nothing is returned.
C4_TooLongRejected ==
    (call.op = "transfer" /\ BadAt(call.args) = {}
       /\ RequestedLength > MAX_TRANSFER_LENGTH) =>
        (call.exc = "BufferTooLarge" /\ ~call.oob /\ call.msgs = <<>> /\ call.result = <<>>)

\* C5 (as claimed): a transfer with an element outside 0..255 fails with ValueError
\* before any message is issued and leaves the instance as it was.
C5_BadByteValueError ==
    (call.op = "transfer" /\ BadAt(call.args) # {}) =>
        (call.exc = "ValueError" /\ call.msgs = <<>> /\ ~call.oob /\ InstanceUnchanged)

\* C6: when open (as a method or from the constructor) is called on an unopened
\* instance and open(2) fails, the call fails with the module's own error
\* "can't open device", no query is issued, and the instance stays unopened with
\* its settings unchanged.
C6_OpenFailureLeavesUnopened ==
    (call.op \in {"open", "init"} /\ call.pre.fd = -1 /\ call.nOpen = 1 /\ call.osret < 0) =>
        /\ call.exc = "SpiError"
        /\ call.msg = "can't open device"
        /\ call.nQuery = 0
        /\ Unopened
        /\ SettingsUnchanged
        /\ openFds = call.pre.openFds

\* open(2) was called on an unopened instance and failed
C6_Witness ==
    /\ call.op = "open"
    /\ call.pre.fd = -1
    /\ call.nOpen = 1
    /\ call.osret = -1
    /\ call.exc = "SpiError"

\* C7 (as claimed): when close(2) fails, close() fails with IOError and the instance
\* is reset to unopened with zero settings all the same.
C7_FailedCloseStillResets ==
    (call.op = "close" /\ call.pre.fd # -1 /\ call.nClose = 1 /\ call.osret = -1) =>
        (call.exc = "IOError" /\ Unopened /\ SettingsZero)

\* C8 (as claimed): once the instance's lifetime has ended (the host dropped it, or
\* its construction failed) every descriptor it opened is eventually released.
LifetimeEnded == phase \in {"dropped", "init_failed"}
C8_DescriptorEventuallyReleased == LifetimeEnded ~> (openFds = {})

\* C9 (as claimed): at most one descriptor opened by the instance is unreleased, and
\* when there is one it is self->fd.
C9_AtMostOneHandle ==
    /\ Cardinality(openFds) <= 1
    /\ (Cardinality(openFds) = 1 => openFds = {fd})

\* C10 (as claimed): whenever the descriptor is the sentinel the settings are zero.
C10_UnopenedImpliesZero == Unopened => SettingsZero
====
